---- MODULE Spec2Model ----
(***************************************************************************)
(* A model of semantle_solver.py: the run loop of SemantleSolver           *)
(* (auto_solve), the candidate selector (get_word_to_try and               *)
(* get_word_to_try_from_related_word), the two cached expansion providers  *)
(* (wikipedia and milog), the oracle client (submit_guess) and the ledger  *)
(* (guess_history, get_top_matches).                                       *)
(*                                                                         *)
(* Words are strings.  The remote services are the environment: the oracle *)
(* answers every submission with any response of Responses, and a relation *)
(* source either serves the page of a word (WikiLinks, WikiBody,           *)
(* MilogDivs) or fails.  The position of the single control thread is pc.  *)
(***************************************************************************)
EXTENDS Integers, Sequences, FiniteSets, TLC

VARIABLES
    language,                    \* self.language
    seed_word,                   \* self.seed_word ("" when none is configured)
    corpus,                      \* self.corpus, as load_corpus left it
    guess_history,               \* self.guess_history
    tried_words,                 \* self.tried_words
    wikipedia_cache,             \* self.wikipedia_cache
    wikipedia_exhausted,         \* self.wikipedia_exhausted
    milog_cache,                 \* self.milog_cache
    milog_exhausted,             \* self.milog_exhausted
    top_words_to_find_relations, \* self.top_words_to_find_relations
    pc,                          \* where auto_solve stands
    pass,                        \* "ranked" or "last_ditch": the pass of get_word_to_try under way
    top_matches,                 \* the local top_matches of get_word_to_try_from_related_word
    rank_idx,                    \* the loop index of get_word_to_try_from_related_word
    word_to_try,                 \* the WordToTry the selector returned
    result,                      \* what submit_guess returned (NoResult for None)
    sleep_time,                  \* submit_guess's sleep_time parameter, a fraction num/den of seconds
    sleeps,                      \* the sleeps performed by the submit_guess call under way
    last_response,               \* history: the oracle response that ended the last submit_guess call
    last_expand,                 \* history: the last get_cached_*_related_words call of this round
    consulted,                   \* history: the ranked words consulted by the pass under way
    ever_empty,                  \* history: per provider, the words whose lookup yielded no candidate
    cleared,                     \* history: per provider, the words flushed from the cache and not expanded since
    window,                      \* history: per provider and word, the expand calls since the last flush
    network_errors,              \* history: the network failures of the run so far
    unknown_words,               \* history: the words the oracle answered "Word not found" for
    seed_rounds,                 \* history: the rounds in which the selector returned the seed, and
                                 \* those of them whose request failed in the network
    path_stack,                  \* the frames of print_word_path under way: its result and loop index
    path_printed                 \* the words print_word_path displayed, in order

vars == <<language, seed_word, corpus, guess_history, tried_words, wikipedia_cache,
          wikipedia_exhausted, milog_cache, milog_exhausted, top_words_to_find_relations,
          pc, pass, top_matches, rank_idx, word_to_try, result, sleep_time, sleeps, last_response,
          last_expand, consulted, ever_empty, cleared, window, network_errors,
          unknown_words, seed_rounds, path_stack, path_printed>>

(***************************************************************************)
(* Program constants.                                                      *)
(***************************************************************************)
InitialSearchWidth == 70
TopMatchesLimit == 70
MaxWords == 30
LastDitchWidth == 1000000000
FlushInterval == 200
TerminalDistance == 1000
InitialSleepTime == 5
UnknownSentinel == -1

(***************************************************************************)
(* Bounds of the model.                                                    *)
(***************************************************************************)
\* The oracle answers at most this many 429s to one submit_guess call.
MaxRateLimits == 2

(***************************************************************************)
(* Sequence helpers.                                                       *)
(***************************************************************************)
Range(s) == {s[i] : i \in 1..Len(s)}

Take(s, n) == SubSeq(s, 1, IF n < Len(s) THEN n ELSE Len(s))

IsDistinct(s) == \A i, j \in 1..Len(s) : i # j => s[i] # s[j]

\* A filter that lets every word through.
UntriedAll(s, tried) == s

\* [w for w in s if w not in tried]
Untried(s, tried) == SelectSeq(s, LAMBDA w : w \notin tried)

(***************************************************************************)
(* The environment: the words and the pages of the relation sources.       *)
(***************************************************************************)
\* A token carrying a diacritic mark (category Mn); the mark is written ~.
Decorated == {"con~flict"}

\* A token in Latin capitals: outside the Hebrew block, and changed by lower().
LatinTokens == {"Peace"}

\* The i-th word of a long word list.
Filler(i) == "f" \o ToString(i)

\* The links [[...]] of the page of a word, each a phrase of tokens.
WikiLinks(w) ==
    CASE w = "war" -> << <<"war", "x">>, <<"con~flict", "conflict">>, <<"Peace">> >>
      [] w = "aa" -> << <<"bb", "cc">> >>
      [] w = "bb" -> << <<"aa">> >>
      [] w = "cc" -> << <<"dd">> >>
      [] w = Filler(TopMatchesLimit + 1) -> << <<"zz">> >>
      [] OTHER -> << >>

\* The runs of Hebrew-block characters of the whole page text of a word.
WikiBody(w) ==
    CASE w = "war" -> <<"war", "conflict">>
      [] w = "conflict" -> <<"conflict", "x", "peace", "peace">>
      [] OTHER -> << >>

\* The result blocks (div.sr_e) of the dictionary page of a word, each the
\* runs of letters of its text.
MilogDivs(w) ==
    CASE w = "sea" -> << <<"sea", "x", "peace">>, <<"peace", "Peace">> >>
      [] OTHER -> << >>

(***************************************************************************)
(* Text normalisation.  A token is classified by the sets above; the       *)
(* functions below do to it what the source does to its characters.        *)
(***************************************************************************)
\* Drops the characters of category Mn.
remove_niqqud(text) == IF text = "con~flict" THEN "conflict" ELSE text

\* str.lower()
lower(text) == IF text = "Peace" THEN "peace" ELSE text

\* All characters in U+0590..U+05FF, and not empty.
is_hebrew(text) == text # "" /\ text \notin LatinTokens

\* HEBREW_WORD_RE: a run of at least two letters of U+05D0..U+05EA.
MatchesHebrewWordRe(text) == text \notin LatinTokens /\ text \notin Decorated /\ Len(text) >= 2

(***************************************************************************)
(* The ledger: get_top_matches.                                            *)
(***************************************************************************)
\* A ledger that is handed out in the order of recording.
SortedHistoryAsRecorded(history) == history

\* sorted(history, key=similarity, reverse=True): the sort is stable, also
\* with reverse=True, so the i-th entry goes behind every entry of higher
\* similarity and every earlier entry of the same similarity.
SortedHistory(history) ==
    LET n == Len(history)
        place == {<<i, Cardinality({j \in 1..n :
                           history[j].similarity > history[i].similarity})
                       + Cardinality({j \in 1..(i - 1) :
                           history[j].similarity = history[i].similarity})
                       + 1>> : i \in 1..n}
    IN  [k \in 1..n |-> history[(CHOOSE p \in place : p[2] = k)[1]]]

get_top_matches(n) == Take(SortedHistory(guess_history), n)

(***************************************************************************)
(* The expansion providers.                                                *)
(***************************************************************************)
\* A skip condition without the test for words already collected.
SkipsWordNoDedup(word, base_word, related_words) ==
    \/ Len(word) < 2
    \/ word = base_word
    \/ word \in tried_words

\* The condition under which extract_words_from_wikitext_phrase skips a word.
SkipsWord(word, base_word, related_words) ==
    \/ Len(word) < 2
    \/ word = base_word
    \/ word \in tried_words
    \/ word \in Range(related_words)

\* One token of a phrase, as the loop body normalises it.
NormalisedToken(token) ==
    IF language = "english" THEN lower(remove_niqqud(token)) ELSE remove_niqqud(token)

\* The loop of extract_words_from_wikitext_phrase from the i-th word of the
\* phrase on; the value is related_words as the call leaves it.
RECURSIVE ExtractFrom(_, _, _, _, _)
ExtractFrom(base_word, phrase, i, related_words, max_words) ==
    IF i > Len(phrase) THEN related_words
    ELSE LET word == NormalisedToken(phrase[i])
         IN  IF language = "hebrew" /\ ~is_hebrew(word)
                 THEN ExtractFrom(base_word, phrase, i + 1, related_words, max_words)
             ELSE IF SkipsWord(word, base_word, related_words)
                 THEN ExtractFrom(base_word, phrase, i + 1, related_words, max_words)
             ELSE IF Len(related_words) + 1 >= max_words
                 THEN Append(related_words, word)
             ELSE ExtractFrom(base_word, phrase, i + 1, Append(related_words, word), max_words)

extract_words_from_wikitext_phrase(base_word, phrase, related_words, max_words) ==
    ExtractFrom(base_word, phrase, 1, related_words, max_words)

\* for link in links: extract_words_from_wikitext_phrase(word, link, ...)
RECURSIVE ExtractPhrases(_, _, _, _, _)
ExtractPhrases(word, phrases, k, related_words, max_words) ==
    IF k > Len(phrases) THEN related_words
    ELSE ExtractPhrases(word, phrases, k + 1,
             extract_words_from_wikitext_phrase(word, phrases[k], related_words, max_words),
             max_words)

\* served is FALSE when the request fails or the page is missing: every
\* such path returns [].
get_related_words_from_wikipedia(word, max_words, served) ==
    IF ~served THEN << >>
    ELSE LET from_links == ExtractPhrases(word, WikiLinks(word), 1, << >>, max_words)
             body == [k \in 1..Len(WikiBody(word)) |-> <<WikiBody(word)[k]>>]
             related_words ==
                 IF language = "hebrew" /\ Len(from_links) < max_words
                 THEN ExtractPhrases(word, body, 1, from_links, max_words)
                 ELSE from_links
         IN  Take(related_words, max_words)

\* The condition under which get_related_words_from_milog skips a candidate.
MilogSkips(candidate, word, related_words) ==
    \/ candidate = word
    \/ candidate \in tried_words
    \/ candidate \in Range(related_words)

\* The inner loop over HEBREW_WORD_RE.findall(text) of one div.
RECURSIVE MilogDiv(_, _, _, _, _)
MilogDiv(word, div, i, related_words, max_words) ==
    IF i > Len(div) THEN related_words
    ELSE LET candidate == remove_niqqud(div[i])
         IN  IF ~MatchesHebrewWordRe(candidate) \/ MilogSkips(candidate, word, related_words)
                 THEN MilogDiv(word, div, i + 1, related_words, max_words)
             ELSE IF Len(related_words) + 1 >= max_words
                 THEN Append(related_words, candidate)
             ELSE MilogDiv(word, div, i + 1, Append(related_words, candidate), max_words)

RECURSIVE MilogDivsFrom(_, _, _, _, _)
MilogDivsFrom(word, divs, k, related_words, max_words) ==
    IF k > Len(divs) THEN related_words
    ELSE MilogDivsFrom(word, divs, k + 1, MilogDiv(word, divs[k], 1, related_words, max_words),
             max_words)

get_related_words_from_milog(word, max_words, served) ==
    IF ~served THEN << >>
    ELSE Take(MilogDivsFrom(word, MilogDivs(word), 1, << >>, max_words), max_words)

(***************************************************************************)
(* Memoisation and negative caching.  A cache is a function from the words *)
(* it holds to their lists.                                                *)
(***************************************************************************)
EmptyCache == [w \in {} |-> << >>]

\* A lookup whose list is not stored.
CacheNotStored(cache, word, related_words) == cache

\* cache[word] = related_words
CacheAfterLookup(cache, word, related_words) ==
    [w \in DOMAIN cache \cup {word} |-> IF w = word THEN related_words ELSE cache[w]]

\* A lookup that never marks the word exhausted.
ExhaustedNotRecorded(exhausted, word, related_words) == exhausted

\* if len(related_words) == 0: exhausted.append(word)
ExhaustedAfterLookup(exhausted, word, related_words) ==
    IF Len(related_words) = 0 THEN Append(exhausted, word) ELSE exhausted

\* The body shared by get_cached_wikipedia_related_words and
\* get_cached_milog_related_words; looked_up is what the lookup returns if
\* it is made.
CachedRelatedWords(cache, exhausted, word, looked_up) ==
    IF word \in Range(exhausted)
        THEN [result |-> << >>, cache |-> cache, exhausted |-> exhausted, fetched |-> FALSE]
    ELSE IF word \in DOMAIN cache
        THEN [result |-> cache[word], cache |-> cache, exhausted |-> exhausted, fetched |-> FALSE]
    ELSE [result |-> looked_up,
          cache |-> CacheAfterLookup(cache, word, looked_up),
          exhausted |-> ExhaustedAfterLookup(exhausted, word, looked_up),
          fetched |-> TRUE]

get_cached_wikipedia_related_words(word, max_words, served) ==
    CachedRelatedWords(wikipedia_cache, wikipedia_exhausted, word,
                       get_related_words_from_wikipedia(word, max_words, served))

get_cached_milog_related_words(word, max_words, served) ==
    CachedRelatedWords(milog_cache, milog_exhausted, word,
                       get_related_words_from_milog(word, max_words, served))

\* A flush that leaves the dictionary as it is.
FlushNothing(dictionary_to_flush) == dictionary_to_flush

\* dictionary_to_flush.clear()
flush_dictionary(dictionary_to_flush) == EmptyCache

(***************************************************************************)
(* The oracle.                                                             *)
(***************************************************************************)
\* The similarity of a response: a float of either sign (a cosine
\* similarity, for hebrew in hundredths).
Similarities == {-5, -1, 20, 50}

\* The distance (for english: percentile) of a response; a response without
\* the field reads as 0 in either language.
Distances == {0, TerminalDistance}

\* What requests.get() does for one submission:
\*   network         it raises a RequestException
\*   rate_limit      status 429
\*   word_not_found  status 400 or 404, "Word not found" in the text
\*   client_error    status 400 or 404, another text
\*   server_error    another error status
\*   not_json        status 200, the body is not JSON
\*   ok              status 200, a JSON body: the score as a single object
\*                   or wrapped in a one-element sequence
Responses ==
    [kind : {"network", "rate_limit", "word_not_found", "client_error", "server_error",
             "not_json"},
     shape : {"none"}, similarity : {0}, distance : {0}]
    \cup [kind : {"ok"}, shape : {"object", "sequence"}, similarity : Similarities,
          distance : Distances]

NoResponse == [kind |-> "none", shape |-> "none", similarity |-> 0, distance |-> 0]

\* The network fails at most this many times in a run.
MaxNetworkErrors == 1

\* data[0].get(...) needs a sequence, data.get(...) an object; the other
\* shape raises KeyError or AttributeError, which submit_guess does not catch.
ShapeAccepted(response) ==
    IF language = "hebrew" THEN response.shape = "sequence" ELSE response.shape = "object"

\* A submit_guess that gives up on a 429 as on any other error status.
OutcomeRateLimitFails(response) ==
    CASE response.kind = "word_not_found" -> "unknown"
      [] response.kind \in {"rate_limit", "network", "client_error", "server_error",
                            "not_json"} -> "failure"
      [] response.kind = "ok" -> IF ShapeAccepted(response) THEN "score" ELSE "raise"
      [] OTHER -> "none"

\* How a submit_guess call that got this response ends:
\*   "score", "unknown"  a GuessResult is returned
\*   "retry"             the call sleeps and calls itself again
\*   "failure"           None is returned
\*   "raise"             an exception leaves submit_guess
Outcome(response) ==
    CASE response.kind = "rate_limit" -> "retry"
      [] response.kind = "word_not_found" -> "unknown"
      [] response.kind \in {"network", "client_error", "server_error", "not_json"} -> "failure"
      [] response.kind = "ok" -> IF ShapeAccepted(response) THEN "score" ELSE "raise"
      [] OTHER -> "none"

\* A submit_guess that forgets the word.
TriedNotAdded(tried, word) == tried

\* self.tried_words.add(word), which every response but a 429 and a network
\* failure reaches.
TriedAfterResponse(tried, word) == tried \cup {word}

\* A submit_guess that records the word not found only.
RecordsUnknownOnly(outcome) == outcome = "unknown"

\* Whether submit_guess appends a GuessResult for this outcome.
RecordsGuess(outcome) == outcome \in {"score", "unknown"}

NoResult == [word |-> "", similarity |-> 0, distance |-> 0, origin |-> "",
             origin_source |-> "none", guess_number |-> 0]

NoWord == [word |-> "", origin |-> "", origin_source |-> "none"]

\* A GuessResult that names its own word as its origin.
GuessResultOwnOrigin(response, guess_number) ==
    [word |-> word_to_try.word,
     similarity |-> response.similarity,
     distance |-> response.distance,
     origin |-> word_to_try.word,
     origin_source |-> word_to_try.origin_source,
     guess_number |-> guess_number]

\* The GuessResult of a response for word_to_try, numbered guess_number.
GuessResultOf(response, guess_number) ==
    [word |-> word_to_try.word,
     similarity |-> IF Outcome(response) = "unknown" THEN UnknownSentinel
                    ELSE response.similarity,
     distance |-> IF Outcome(response) = "unknown" THEN UnknownSentinel
                  ELSE response.distance,
     origin |-> word_to_try.origin,
     origin_source |-> word_to_try.origin_source,
     guess_number |-> guess_number]

\* A backoff that doubles the wait.
NextSleepTimeDoubled(t) == [num |-> t.num * 2, den |-> t.den]

\* sleep_time * 1.5
NextSleepTime(t) == [num |-> t.num * 3, den |-> t.den * 2]

(***************************************************************************)
(* History variables of the expansion providers.                           *)
(***************************************************************************)
Providers == {"wiki", "milog"}

NoCall == [provider |-> "none", word |-> "", max_words |-> 0, was_exhausted |-> FALSE,
           was_cleared |-> FALSE, was_empty |-> FALSE, fetched |-> FALSE, result |-> << >>]

\* The record of one get_cached_*_related_words call, r being its value.
CallRecord(provider, exhausted, word, max_words, r) ==
    [provider |-> provider, word |-> word, max_words |-> max_words,
     was_exhausted |-> word \in Range(exhausted),
     was_cleared |-> word \in cleared[provider],
     was_empty |-> word \in ever_empty[provider],
     fetched |-> r.fetched, result |-> r.result]

\* The calls for the word since the last flush: how many (2 stands for two
\* or more), how many of them looked the word up, the first and the last
\* list returned, and whether the word was in the exhausted list at the first.
WindowAfterCall(w, exhausted, word, r) ==
    IF word \in DOMAIN w
    THEN [w EXCEPT ![word] = [calls |-> 2,
                              fetches |-> @.fetches + (IF r.fetched THEN 1 ELSE 0),
                              first |-> @.first, last |-> r.result,
                              was_exhausted |-> @.was_exhausted]]
    ELSE [x \in DOMAIN w \cup {word} |->
             IF x = word
             THEN [calls |-> 1, fetches |-> IF r.fetched THEN 1 ELSE 0,
                   first |-> r.result, last |-> r.result,
                   was_exhausted |-> word \in Range(exhausted)]
             ELSE w[x]]

LogCall(provider, exhausted, word, max_words, r) ==
    /\ last_expand' = CallRecord(provider, exhausted, word, max_words, r)
    /\ window' = [window EXCEPT ![provider] = WindowAfterCall(@, exhausted, word, r)]
    /\ cleared' = [cleared EXCEPT ![provider] = @ \ {word}]
    /\ ever_empty' = [ever_empty EXCEPT ![provider] =
                         IF r.fetched /\ Len(r.result) = 0 THEN @ \cup {word} ELSE @]

(***************************************************************************)
(* The state after SemantleSolver() and main()'s assignments.  The corpus  *)
(* is what load_corpus builds from the word file and the built-in list;    *)
(* the model takes a short one.                                            *)
(***************************************************************************)
NoHistory == [wiki |-> {}, milog |-> {}]

Init ==
    /\ language \in {"hebrew", "english"}
    /\ seed_word \in {"", "war"}
    /\ corpus = {"sea"}
    /\ guess_history = << >>
    /\ tried_words = {}
    /\ wikipedia_cache = EmptyCache
    /\ wikipedia_exhausted = << >>
    /\ milog_cache = EmptyCache
    /\ milog_exhausted = << >>
    /\ top_words_to_find_relations = InitialSearchWidth
    /\ pc = "select"
    /\ pass = "ranked"
    /\ top_matches = << >>
    /\ rank_idx = 1
    /\ word_to_try = NoWord
    /\ result = NoResult
    /\ sleep_time = [num |-> InitialSleepTime, den |-> 1]
    /\ sleeps = << >>
    /\ last_response = NoResponse
    /\ last_expand = NoCall
    /\ consulted = {}
    /\ ever_empty = NoHistory
    /\ cleared = NoHistory
    /\ window = [wiki |-> EmptyCache, milog |-> EmptyCache]
    /\ network_errors = 0
    /\ unknown_words = {}
    /\ seed_rounds = [returned |-> 0, failed |-> 0]
    /\ path_stack = << >>
    /\ path_printed = << >>

config == <<language, seed_word, corpus>>
ledger == <<guess_history, tried_words>>
wiki_state == <<wikipedia_cache, wikipedia_exhausted>>
milog_state == <<milog_cache, milog_exhausted>>
expand_history == <<last_expand, ever_empty, cleared, window>>
submit_state == <<result, sleep_time, sleeps, last_response, network_errors>>
run_history == <<unknown_words, seed_rounds>>
path_state == <<path_stack, path_printed>>

(***************************************************************************)
(* The selector: get_word_to_try and get_word_to_try_from_related_word.    *)
(***************************************************************************)
\* The list get_word_to_try_from_related_word(top_matches_to_search) walks:
\* the code takes get_top_matches(70) whatever its argument is.
RankedGuesses(top_matches_to_search) == get_top_matches(TopMatchesLimit)

\* Where control goes when a pass returns None: the ranked pass falls
\* through to the seed, the last-ditch pass makes get_word_to_try return None.
PassEnd == IF pass = "ranked" THEN "fallback" ELSE "exhausted"

\* The for loop moves on from the rank_idx-th ranked guess.
NextRankedGuess ==
    IF rank_idx < Len(top_matches)
    THEN pc' = "wiki" /\ rank_idx' = rank_idx + 1
    ELSE pc' = PassEnd /\ rank_idx' = rank_idx

\* The top of the while loop of auto_solve: get_word_to_try starts its
\* ranked pass.
StartRound ==
    /\ pc = "select"
    /\ pass' = "ranked"
    /\ top_matches' = RankedGuesses(top_words_to_find_relations)
    /\ rank_idx' = 1
    /\ consulted' = {}
    /\ last_expand' = NoCall
    /\ pc' = IF Len(top_matches') = 0 THEN "fallback" ELSE "wiki"
    /\ UNCHANGED path_state
    /\ UNCHANGED <<config, ledger, wiki_state, milog_state, top_words_to_find_relations,
                   word_to_try, submit_state, ever_empty, cleared, window, run_history>>

\* One iteration of the loop, up to the wiki candidate.
WikiExpand ==
    /\ pc = "wiki"
    /\ LET word == top_matches[rank_idx].word
       IN  \E served \in BOOLEAN :
             LET r == get_cached_wikipedia_related_words(word, MaxWords, served)
                 available_words == Untried(r.result, tried_words)
             IN  /\ wikipedia_cache' = r.cache
                 /\ wikipedia_exhausted' = r.exhausted
                 /\ LogCall("wiki", wikipedia_exhausted, word, MaxWords, r)
                 /\ consulted' = consulted \cup {word}
                 /\ IF Len(available_words) > 0
                    THEN /\ \E k \in 1..Len(available_words) :
                                word_to_try' = [word |-> available_words[k], origin |-> word,
                                                origin_source |-> "wiki"]
                         /\ pc' = "submit"
                         /\ rank_idx' = rank_idx
                    ELSE IF language = "hebrew"
                    THEN pc' = "milog" /\ UNCHANGED <<rank_idx, word_to_try>>
                    ELSE NextRankedGuess /\ UNCHANGED word_to_try
    /\ UNCHANGED path_state
    /\ UNCHANGED <<config, ledger, milog_state, top_words_to_find_relations, pass,
                   top_matches, submit_state, run_history>>

\* The rest of the iteration: the milog candidate (hebrew only).
MilogExpand ==
    /\ pc = "milog"
    /\ LET word == top_matches[rank_idx].word
       IN  \E served \in BOOLEAN :
             LET r == get_cached_milog_related_words(word, MaxWords, served)
                 available_words == Untried(r.result, tried_words)
             IN  /\ milog_cache' = r.cache
                 /\ milog_exhausted' = r.exhausted
                 /\ LogCall("milog", milog_exhausted, word, MaxWords, r)
                 /\ IF Len(available_words) > 0
                    THEN /\ \E k \in 1..Len(available_words) :
                                word_to_try' = [word |-> available_words[k], origin |-> word,
                                                origin_source |-> "milog"]
                         /\ pc' = "submit"
                         /\ rank_idx' = rank_idx
                    ELSE NextRankedGuess /\ UNCHANGED word_to_try
    /\ UNCHANGED path_state
    /\ UNCHANGED <<config, ledger, wiki_state, top_words_to_find_relations, pass,
                   top_matches, submit_state, consulted, run_history>>

\* A corpus filter that forgets what was tried.
AllCorpusWords == corpus

\* get_random_words_from_corpus: the corpus words not tried yet.
AvailableCorpusWords == {w \in corpus : w \notin tried_words}

\* get_word_to_try after a ranked pass that returned None: the seed, else
\* the wider search width and a random corpus word, else the last-ditch pass.
Fallback ==
    /\ pc = "fallback"
    /\ IF seed_word # "" /\ seed_word \notin tried_words
       THEN /\ word_to_try' = [word |-> seed_word, origin |-> "", origin_source |-> "seed"]
            /\ seed_rounds' = [seed_rounds EXCEPT !.returned = @ + 1]
            /\ pc' = "submit"
            /\ UNCHANGED <<top_words_to_find_relations, pass, top_matches, rank_idx,
                           consulted>>
       ELSE /\ top_words_to_find_relations' = top_words_to_find_relations + 1
            /\ UNCHANGED seed_rounds
            /\ IF AvailableCorpusWords # {}
               THEN /\ \E random_word \in AvailableCorpusWords :
                           word_to_try' = [word |-> random_word, origin |-> "",
                                           origin_source |-> "random"]
                    /\ pc' = "submit"
                    /\ UNCHANGED <<pass, top_matches, rank_idx, consulted>>
               ELSE /\ pass' = "last_ditch"
                    /\ top_matches' = RankedGuesses(LastDitchWidth)
                    /\ rank_idx' = 1
                    /\ consulted' = {}
                    /\ pc' = IF Len(top_matches') = 0 THEN "exhausted" ELSE "wiki"
                    /\ UNCHANGED word_to_try
    /\ UNCHANGED path_state
    /\ UNCHANGED <<config, ledger, wiki_state, milog_state, submit_state, expand_history,
                   unknown_words>>

(***************************************************************************)
(* The oracle client: submit_guess.                                        *)
(***************************************************************************)
\* The responses the oracle may give to the call under way.
EnabledResponses ==
    {r \in Responses :
        /\ r.kind = "rate_limit" => Len(sleeps) < MaxRateLimits
        /\ r.kind = "network" => network_errors < MaxNetworkErrors}

\* One request of submit_guess(word_to_try, sleep_time) and what follows it
\* in the call; after a 429 the call sleeps and calls itself, which is the
\* next step of this action.
SubmitGuess ==
    /\ pc = "submit"
    /\ IF word_to_try.word \in tried_words
       THEN /\ result' = NoResult
            /\ pc' = "round_end"
            /\ UNCHANGED <<ledger, sleep_time, sleeps, last_response, network_errors,
                           run_history>>
       ELSE \E response \in EnabledResponses :
              LET outcome == Outcome(response)
                  tried == TriedAfterResponse(tried_words, word_to_try.word)
                  guess == GuessResultOf(response, Cardinality(tried))
              IN  /\ last_response' = response
                  /\ IF outcome = "retry"
                     THEN /\ sleeps' = Append(sleeps, sleep_time)
                          /\ sleep_time' = NextSleepTime(sleep_time)
                          /\ pc' = "submit"
                          /\ UNCHANGED <<ledger, result, network_errors, run_history>>
                     ELSE IF response.kind = "network"
                     THEN /\ network_errors' = network_errors + 1
                          /\ result' = NoResult
                          /\ pc' = "round_end"
                          /\ seed_rounds' = IF word_to_try.origin_source = "seed"
                                             THEN [seed_rounds EXCEPT !.failed = @ + 1]
                                             ELSE seed_rounds
                          /\ UNCHANGED <<ledger, sleep_time, sleeps, unknown_words>>
                     ELSE /\ tried_words' = tried
                          /\ guess_history' = IF RecordsGuess(outcome)
                                              THEN Append(guess_history, guess)
                                              ELSE guess_history
                          /\ result' = IF RecordsGuess(outcome) THEN guess ELSE NoResult
                          /\ pc' = IF outcome = "raise" THEN "aborted" ELSE "round_end"
                          /\ unknown_words' = IF outcome = "unknown"
                                               THEN unknown_words \cup {word_to_try.word}
                                               ELSE unknown_words
                          /\ UNCHANGED <<sleep_time, sleeps, network_errors, seed_rounds>>
    /\ UNCHANGED path_state
    /\ UNCHANGED <<config, wiki_state, milog_state, top_words_to_find_relations, pass,
                   top_matches, rank_idx, word_to_try, expand_history, consulted>>

(***************************************************************************)
(* The rest of the loop body of auto_solve.                                *)
(***************************************************************************)
\* len(self.tried_words) % 200 == 0
FlushDue == Cardinality(tried_words) % FlushInterval = 0

\* A loop that never sees the answer.
FoundNever(res) == FALSE

\* if result: ... if distance == 1000: return result['word']
FoundAnswer(res) == res # NoResult /\ res.distance = TerminalDistance

EndRound ==
    /\ pc = "round_end"
    /\ IF FoundAnswer(result)
       THEN /\ pc' = "found"
            /\ UNCHANGED <<wiki_state, milog_state, cleared, window, word_to_try,
                           submit_state>>
       ELSE /\ pc' = "select"
            /\ word_to_try' = NoWord
            /\ result' = NoResult
            /\ last_response' = NoResponse
            /\ sleep_time' = [num |-> InitialSleepTime, den |-> 1]
            /\ sleeps' = << >>
            /\ IF FlushDue
               THEN /\ wikipedia_cache' = flush_dictionary(wikipedia_cache)
                    /\ milog_cache' = flush_dictionary(milog_cache)
                    /\ cleared' = [wiki |-> cleared.wiki \cup DOMAIN wikipedia_cache,
                                   milog |-> cleared.milog \cup DOMAIN milog_cache]
                    /\ window' = [wiki |-> EmptyCache, milog |-> EmptyCache]
               ELSE UNCHANGED <<wikipedia_cache, milog_cache, cleared, window>>
            /\ UNCHANGED <<wikipedia_exhausted, milog_exhausted, network_errors>>
    /\ UNCHANGED path_state
    /\ UNCHANGED <<config, ledger, top_words_to_find_relations, pass, top_matches,
                   rank_idx, last_expand, consulted, ever_empty, run_history>>

Next ==
    \/ StartRound
    \/ WikiExpand
    \/ MilogExpand
    \/ Fallback
    \/ SubmitGuess
    \/ EndRound

Spec == Init /\ [][Next]_vars

\* The runs without a seed word.  auto_solve is one thread that runs every
\* step it reaches: a request or a lookup that is answered, or fails, is
\* followed by the next statement.
SeedlessInit == Init /\ seed_word = ""

FairSpec == SeedlessInit /\ [][Next]_vars /\ WF_vars(Next)

(***************************************************************************)
(* A run well under way, one guess short of the first flush of non-empty   *)
(* caches.  It is the state at the top of round 200 of this hebrew run     *)
(* without a seed, over a corpus of the words f1..f197 and aa, none of     *)
(* which but aa has a page:                                                *)
(*   rounds 1..71     draw f1..f71 from the corpus; each is scored 20, so  *)
(*                    they rank in this order and f1..f70 are looked up    *)
(*                    (and found empty) by the next rounds' ranked passes; *)
(*   rounds 72..197   draw f72..f197; each gets an error status, so it is  *)
(*                    tried and not recorded;                              *)
(*   round 198        draws aa, scored 50;                                 *)
(*   round 199        the ranked pass looks aa up, gets [bb, cc] and       *)
(*                    picks bb, scored 50.                                 *)
(* Every round but the last increased the search width.                    *)
(***************************************************************************)
NumFillers == FlushInterval - 3

LateRecorded == TopMatchesLimit + 1

Fillers(n) == {Filler(i) : i \in 1..n}

LateHistory ==
    [i \in 1..(LateRecorded + 2) |->
        IF i <= LateRecorded
        THEN [word |-> Filler(i), similarity |-> 20, distance |-> 0, origin |-> "",
              origin_source |-> "random", guess_number |-> i]
        ELSE IF i = LateRecorded + 1
        THEN [word |-> "aa", similarity |-> 50, distance |-> 0, origin |-> "",
              origin_source |-> "random", guess_number |-> NumFillers + 1]
        ELSE [word |-> "bb", similarity |-> 50, distance |-> 0, origin |-> "aa",
              origin_source |-> "wiki", guess_number |-> NumFillers + 2]]

LateExhausted == [i \in 1..TopMatchesLimit |-> Filler(i)]

LateCalls == [w \in Fillers(TopMatchesLimit) |->
                 [calls |-> 2, fetches |-> 1, first |-> << >>, last |-> << >>,
                  was_exhausted |-> FALSE]]

LateInit ==
    /\ language = "hebrew"
    /\ seed_word = ""
    /\ corpus = Fillers(NumFillers) \cup {"aa"}
    /\ guess_history = LateHistory
    /\ tried_words = Fillers(NumFillers) \cup {"aa", "bb"}
    /\ wikipedia_cache = [w \in Fillers(TopMatchesLimit) \cup {"aa"} |->
                             IF w = "aa" THEN <<"bb", "cc">> ELSE << >>]
    /\ wikipedia_exhausted = LateExhausted
    /\ milog_cache = [w \in Fillers(TopMatchesLimit) |-> << >>]
    /\ milog_exhausted = LateExhausted
    /\ top_words_to_find_relations = InitialSearchWidth + NumFillers + 1
    /\ pc = "select"
    /\ pass = "ranked"
    /\ top_matches = << >>
    /\ rank_idx = 1
    /\ word_to_try = NoWord
    /\ result = NoResult
    /\ sleep_time = [num |-> InitialSleepTime, den |-> 1]
    /\ sleeps = << >>
    /\ last_response = NoResponse
    /\ last_expand = NoCall
    /\ consulted = {}
    /\ ever_empty = [wiki |-> Fillers(TopMatchesLimit), milog |-> Fillers(TopMatchesLimit)]
    /\ cleared = NoHistory
    /\ window = [wiki |-> [w \in Fillers(TopMatchesLimit) \cup {"aa"} |->
                              IF w = "aa"
                              THEN [calls |-> 1, fetches |-> 1, first |-> <<"bb", "cc">>,
                                    last |-> <<"bb", "cc">>, was_exhausted |-> FALSE]
                              ELSE LateCalls[w]],
                 milog |-> LateCalls]
    /\ network_errors = 0
    /\ unknown_words = {}
    /\ seed_rounds = [returned |-> 0, failed |-> 0]
    /\ path_stack = << >>
    /\ path_printed = << >>

SpecLate == LateInit /\ [][Next]_vars

(***************************************************************************)
(* Properties.                                                             *)
(***************************************************************************)
GuessIndices == 1..Len(guess_history)

exhausted_of(provider) ==
    IF provider = "wiki" THEN wikipedia_exhausted ELSE milog_exhausted

cache_of(provider) ==
    IF provider = "wiki" THEN wikipedia_cache ELSE milog_cache

\* The positions at which tried_words is still what it was when the last
\* expand call of the round was made.
SelectorAtWork == pc \in {"wiki", "milog", "fallback", "submit"}

\* C1: in every reachable state no two entries of guess_history have the
\* same word.
UniqueGuessWords ==
    \A i, j \in GuessIndices : i # j => guess_history[i].word # guess_history[j].word

\* A ledger of three guesses, one of them an unknown word, in a run that met
\* a network failure and an error status (a tried word that is not recorded).
UniqueGuessWordsWitness ==
    /\ Len(guess_history) >= 3
    /\ \E i \in GuessIndices : guess_history[i].similarity = UnknownSentinel
    /\ network_errors >= 1
    /\ Cardinality(tried_words) > Len(guess_history)

\* C2: when a submit_guess call ends in a transient error, the word is not
\* in tried_words afterwards, nothing was recorded for it and the call
\* returned None.
TransientErrorLeavesWordUntried ==
    (pc = "round_end" /\ Outcome(last_response) = "failure")
        => /\ word_to_try.word \notin tried_words
           /\ \A i \in GuessIndices : guess_history[i].word # word_to_try.word
           /\ result = NoResult

\* C3: a submit_guess call that ends in a score or an unknown word appends
\* exactly one entry, for its word, to guess_history and has the word in
\* tried_words; no other step changes guess_history.
NonTransientAppendsOnce ==
    [][LET non_transient == /\ pc = "submit"
                            /\ pc' # "submit"
                            /\ last_response' # last_response
                            /\ Outcome(last_response') \in {"score", "unknown"}
       IN  IF non_transient
           THEN /\ Len(guess_history') = Len(guess_history) + 1
                /\ SubSeq(guess_history', 1, Len(guess_history)) = guess_history
                /\ guess_history'[Len(guess_history')].word = word_to_try.word
                /\ word_to_try.word \in tried_words'
           ELSE guess_history' = guess_history]_vars

\* A call that was rate limited once and then answered "word not found" has
\* recorded its word.
NonTransientAppendsOnceWitness ==
    /\ pc = "round_end"
    /\ Outcome(last_response) = "unknown"
    /\ Len(sleeps) >= 1
    /\ Len(guess_history) >= 2
    /\ guess_history[Len(guess_history)].word = word_to_try.word

\* C4: a ranked pass that yields no candidate has consulted exactly the top
\* K recorded guesses, K being top_words_to_find_relations.
RankedPassConsultsTopK ==
    pc = "fallback"
        => consulted = {g.word : g \in Range(get_top_matches(top_words_to_find_relations))}

\* The list an expand call for the word would return now, the source
\* serving its page.
ExpansionList(provider, word) ==
    IF provider = "wiki"
    THEN get_cached_wikipedia_related_words(word, MaxWords, TRUE).result
    ELSE get_cached_milog_related_words(word, MaxWords, TRUE).result

\* C5: the selector signals exhaustion only when no recorded guess has an
\* untried word left in its expansion list.
ExhaustionOnlyWhenNothingLeft ==
    pc = "exhausted"
        => \A i \in GuessIndices :
             \A provider \in (IF language = "hebrew" THEN Providers ELSE {"wiki"}) :
                Len(Untried(ExpansionList(provider, guess_history[i].word), tried_words)) = 0

\* C6: the run loop ends only on a terminal score or on exhaustion; no
\* oracle response makes an exception leave it.
RunEndsOnlyOnTerminalOrExhaustion ==
    pc \notin {"select", "wiki", "milog", "fallback", "submit", "round_end"}
        => pc \in {"found", "exhausted"}

\* The well-formedness of the list of the last expand call that does not
\* depend on tried_words.
ListWellFormed(call) ==
    /\ IsDistinct(call.result)
    /\ call.word \notin Range(call.result)
    /\ \A w \in Range(call.result) : Len(w) >= 2
    /\ Len(call.result) <= call.max_words

\* C7 as stated: every list an expand call returns, freshly looked up or
\* served from the cache, is duplicate free, without the base word, without
\* words shorter than two characters, at most max_count long and without any
\* word that is in tried_words at the time of the call.
ExpandExcludesTriedWords ==
    (last_expand # NoCall /\ SelectorAtWork)
        => /\ ListWellFormed(last_expand)
           /\ Range(last_expand.result) \cap tried_words = {}

\* C7 as amended: the same, the last condition for freshly looked up lists
\* only.
ExpandListWellFormed ==
    (last_expand # NoCall /\ SelectorAtWork)
        => /\ ListWellFormed(last_expand)
           /\ last_expand.fetched => Range(last_expand.result) \cap tried_words = {}

\* A list of two words freshly taken from a page that repeats a word, names
\* the base word and holds a one-letter token.
ExpandListWellFormedWitness ==
    /\ SelectorAtWork
    /\ last_expand.fetched
    /\ last_expand.word = "war"
    /\ Len(last_expand.result) = 2

\* C8 as stated: the first expand call for a word after a cache clear that
\* removed it performs a fresh lookup.
ClearedWordIsRefetched ==
    last_expand.was_cleared => last_expand.fetched

\* C8 as amended: it performs a fresh lookup unless the word is in the
\* exhausted list, which the clear leaves alone; then it performs none.
ClearedWordIsRefetchedUnlessExhausted ==
    last_expand.was_cleared => (last_expand.fetched <=> ~last_expand.was_exhausted)

\* A word whose list was not empty is looked up again after the clear.
ClearedWordIsRefetchedWitness ==
    /\ last_expand.was_cleared
    /\ last_expand.fetched
    /\ last_expand.word = "aa"

\* C9: a word whose lookup has yielded no candidate is in the provider's
\* exhausted list, and every later expand call for it returns the empty list
\* without a lookup.
NegativeCacheIsPermanent ==
    /\ \A provider \in Providers : ever_empty[provider] \subseteq Range(exhausted_of(provider))
    /\ last_expand.was_empty => (~last_expand.fetched /\ last_expand.result = << >>)

\* A call for such a word after a cache clear.
NegativeCacheIsPermanentWitness ==
    /\ last_expand.was_empty
    /\ last_expand.was_cleared
    /\ ~last_expand.fetched

\* C10 as stated: two expand calls for a word with no cache clear between
\* them perform one lookup together, and the second returns the list of
\* the first.
TwoCallsOneLookup ==
    \A provider \in Providers :
        \A w \in DOMAIN window[provider] :
            window[provider][w].calls = 2
                => /\ window[provider][w].fetches = 1
                   /\ window[provider][w].last = window[provider][w].first

\* C10 as amended: they perform one lookup together, or none when the word
\* was in the exhausted list at the first of them, and the second returns
\* the list of the first.
TwoCallsAtMostOneLookup ==
    \A provider \in Providers :
        \A w \in DOMAIN window[provider] :
            window[provider][w].calls = 2
                => /\ window[provider][w].fetches =
                          (IF window[provider][w].was_exhausted THEN 0 ELSE 1)
                   /\ window[provider][w].last = window[provider][w].first

\* Two calls after the clear for a word with a list that is not empty.
TwoCallsAtMostOneLookupWitness ==
    /\ "cc" \in DOMAIN window.wiki
    /\ window.wiki["cc"].calls = 2
    /\ window.wiki["cc"].fetches = 1
    /\ window.wiki["cc"].first = <<"dd">>
    /\ cleared.wiki # {}

\* A step of submit_guess that sent a request to the oracle.
RequestMade ==
    /\ pc = "submit"
    /\ (last_response' # last_response \/ sleeps' # sleeps)

\* C11: a word the oracle answered "Word not found" for is in tried_words
\* and recorded once in guess_history, with similarity -1 and distance -1,
\* and no later request to the oracle is for that word.
UnknownWordNeverRetried ==
    /\ [](\A w \in unknown_words :
            /\ w \in tried_words
            /\ Cardinality({i \in GuessIndices : guess_history[i].word = w}) = 1
            /\ \A i \in GuessIndices :
                  guess_history[i].word = w
                      => /\ guess_history[i].similarity = UnknownSentinel
                         /\ guess_history[i].distance = UnknownSentinel)
    /\ [][RequestMade => word_to_try.word \notin unknown_words]_vars

\* The seed was answered "Word not found" in the first round, and a later
\* round is about to submit another word.
UnknownWordNeverRetriedWitness ==
    /\ seed_word # ""
    /\ seed_word \in unknown_words
    /\ Len(guess_history) >= 2
    /\ pc = "submit"
    /\ word_to_try.word \notin tried_words

\* C12: no guess recorded from a scored response carries the sentinel
\* similarity, and get_top_matches ranks no unknown-word entry above a
\* scored entry.
SentinelDistinguishable ==
    /\ (pc = "round_end" /\ Outcome(last_response) = "score")
           => result.similarity # UnknownSentinel
    /\ LET top == get_top_matches(Len(guess_history))
       IN  \A i, j \in 1..Len(top) :
              (top[i].word \in unknown_words /\ top[j].word \notin unknown_words) => i > j

\* C13: a 429 makes submit_guess retry the same word, with tried_words,
\* guess_history and the result untouched, and the call ends with the result
\* of the first response that is not a 429: the GuessResult of a score or of
\* "Word not found", None for any other.
RateLimitNeverSurfaces ==
    /\ []((pc = "round_end" /\ last_response # NoResponse)
            => /\ last_response.kind # "rate_limit"
               /\ result.word = (IF last_response.kind \in {"word_not_found", "ok"}
                                 THEN word_to_try.word ELSE NoResult.word)
               /\ last_response.kind = "ok"
                      => /\ result.similarity = last_response.similarity
                         /\ result.distance = last_response.distance
               /\ last_response.kind = "word_not_found"
                      => result.similarity = UnknownSentinel)
    /\ [][(RequestMade /\ last_response'.kind = "rate_limit")
             => /\ pc' = "submit"
                /\ word_to_try' = word_to_try
                /\ tried_words' = tried_words
                /\ guess_history' = guess_history
                /\ result' = result]_vars

\* A call that was rate limited twice and then scored.
RateLimitNeverSurfacesWitness ==
    /\ pc = "round_end"
    /\ Len(sleeps) >= 2
    /\ last_response.kind = "ok"
    /\ result.word = word_to_try.word
    /\ result.similarity = 50

\* The sum of the sleeps performed, as a fraction of seconds.
RECURSIVE SumOfSleeps(_)
SumOfSleeps(s) ==
    IF Len(s) = 0 THEN [num |-> 0, den |-> 1]
    ELSE LET rest == SumOfSleeps(Tail(s))
         IN  [num |-> Head(s).num * rest.den + rest.num * Head(s).den,
              den |-> Head(s).den * rest.den]

RECURSIVE Power(_, _)
Power(b, k) == IF k = 0 THEN 1 ELSE b * Power(b, k - 1)

\* C14 as stated: after k consecutive 429s for a word the sum of the sleeps
\* performed is initial_wait * 1.5^k, that is 5 * 3^k / 2^k.
CumulativeWaitIsGeometricTerm ==
    LET k == Len(sleeps)
        total == SumOfSleeps(sleeps)
    IN  (pc = "submit" /\ k >= 1)
            => total.num * Power(2, k) = InitialSleepTime * Power(3, k) * total.den

\* C14 as amended: the sum of the sleeps performed is
\* initial_wait * (1.5^k - 1) / 0.5, that is 10 * (3^k - 2^k) / 2^k, the last
\* of them is initial_wait * 1.5^(k-1), and the wait the next attempt is
\* called with is initial_wait * 1.5^k.
CumulativeWaitIsGeometricSum ==
    LET k == Len(sleeps)
        total == SumOfSleeps(sleeps)
    IN  (pc = "submit" /\ k >= 1)
            => /\ total.num * Power(2, k)
                      = 2 * InitialSleepTime * (Power(3, k) - Power(2, k)) * total.den
               /\ sleeps[k].num * Power(2, k - 1)
                      = InitialSleepTime * Power(3, k - 1) * sleeps[k].den
               /\ sleep_time.num * Power(2, k) = InitialSleepTime * Power(3, k) * sleep_time.den

\* Two consecutive 429s: sleeps of 5 s and 7.5 s, the third attempt pending.
CumulativeWaitIsGeometricSumWitness ==
    /\ pc = "submit"
    /\ Len(sleeps) = 2
    /\ SumOfSleeps(sleeps).num * 2 = 25 * SumOfSleeps(sleeps).den

\* C15: get_top_matches(n) returns min(n, len(guess_history)) entries of
\* guess_history, the ones of highest similarity, in non-increasing
\* similarity, entries of equal similarity in the order of their recording
\* (so the empty list on an empty ledger); the selector's calls of it leave
\* guess_history as it is.  The ledger of every state is the ledger at the
\* top of some round or at the end of the run, where the result is examined.
TopMatchesRanked ==
    /\ [](\A n \in (IF pc \in {"select", "found"} THEN 0..(Len(guess_history) + 1) ELSE {}) :
            LET top == get_top_matches(n)
                pos(k) == CHOOSE i \in GuessIndices : guess_history[i] = top[k]
            IN  /\ Len(top) = (IF n < Len(guess_history) THEN n ELSE Len(guess_history))
                /\ \A k \in 1..Len(top) : top[k] \in Range(guess_history)
                /\ \A k, l \in 1..Len(top) :
                      k < l => \/ top[k].similarity > top[l].similarity
                               \/ /\ top[k].similarity = top[l].similarity
                                  /\ pos(k) < pos(l)
                /\ \A i \in GuessIndices :
                      guess_history[i] \notin Range(top)
                          => \A k \in 1..Len(top) :
                                \/ top[k].similarity > guess_history[i].similarity
                                \/ /\ top[k].similarity = guess_history[i].similarity
                                   /\ pos(k) < i)
    /\ [][(pc \in {"select", "fallback"}) => (guess_history' = guess_history)]_vars

\* A ranked pass over three guesses, the first recorded of which scored less
\* than the other two, which scored the same.
TopMatchesRankedWitness ==
    /\ pc = "wiki"
    /\ Len(guess_history) >= 3
    /\ guess_history[1].similarity < guess_history[2].similarity
    /\ guess_history[2].similarity = guess_history[3].similarity
    /\ top_matches[1] = guess_history[2]
    /\ top_matches[2] = guess_history[3]

\* The list the provider holds for a word it was asked about: empty for a
\* word of the exhausted list, else the cached one.
StoredList(provider, word) ==
    IF word \in Range(exhausted_of(provider)) THEN << >> ELSE cache_of(provider)[word]

\* The provider was asked about the word and holds no untried word for it.
YieldedNothing(provider, word) ==
    /\ word \in Range(exhausted_of(provider)) \cup DOMAIN cache_of(provider)
    /\ Range(StoredList(provider, word)) \subseteq tried_words

\* C16: the ranked pass visits the guesses in descending similarity and,
\* for each, wiki before milog; the candidate it returns is an untried word
\* of the list of the first (guess, provider) pair that has one, with that
\* guess as origin and that provider as origin_source; milog is asked about
\* a guess only in hebrew and only when wiki held no untried word for it.
RankedPassIsGreedy ==
    /\ pc \in {"wiki", "milog", "submit"}
           => /\ \A j, k \in 1..Len(top_matches) :
                    j < k => top_matches[j].similarity >= top_matches[k].similarity
              /\ \A j \in 1..Len(top_matches) : top_matches[j] \in Range(guess_history)
    /\ (pc = "submit" /\ word_to_try.origin_source \in Providers)
           => /\ word_to_try.word \notin tried_words
              /\ word_to_try.origin = top_matches[rank_idx].word
              /\ last_expand.provider = word_to_try.origin_source
              /\ last_expand.word = word_to_try.origin
              /\ word_to_try.word \in Range(last_expand.result)
              /\ \A j \in 1..(rank_idx - 1) :
                    /\ YieldedNothing("wiki", top_matches[j].word)
                    /\ language = "hebrew" => YieldedNothing("milog", top_matches[j].word)
              /\ word_to_try.origin_source = "milog"
                    => YieldedNothing("wiki", word_to_try.origin)
    /\ (SelectorAtWork /\ last_expand.provider = "milog")
           => /\ language = "hebrew"
              /\ YieldedNothing("wiki", last_expand.word)
    /\ language # "hebrew" => (milog_cache = EmptyCache /\ milog_exhausted = << >>)

\* The candidate comes from the dictionary page of the second ranked guess,
\* after the first guess and the encyclopedia page of the second held nothing.
RankedPassIsGreedyWitness ==
    /\ pc = "submit"
    /\ word_to_try.origin_source = "milog"
    /\ rank_idx = 2
    /\ word_to_try.word = "peace"

\* The selector has returned the seed: no ranked guess held an untried word,
\* and the candidate is the seed word with empty origin.
SeedIsLastResort ==
    (pc = "submit" /\ word_to_try.origin_source = "seed")
        => /\ word_to_try.word = seed_word
           /\ word_to_try.origin = ""
           /\ \A j \in 1..Len(top_matches) :
                 /\ YieldedNothing("wiki", top_matches[j].word)
                 /\ language = "hebrew" => YieldedNothing("milog", top_matches[j].word)

\* C17 as stated: the seed is returned only when no ranked guess yields a
\* candidate, with empty origin and tag "seed", and in at most one round of
\* the run.
SeedReturnedInOneRound ==
    /\ SeedIsLastResort
    /\ seed_rounds.returned <= 1

\* C17 as amended: the same, but the seed is returned while it is not in
\* tried_words: in at most one round more than the rounds in which its
\* request failed in the network, which leave it untried.
SeedReturnedUntilTried ==
    /\ SeedIsLastResort
    /\ (pc = "submit" /\ word_to_try.origin_source = "seed") => seed_word \notin tried_words
    /\ seed_rounds.returned <= seed_rounds.failed + 1

\* The seed is returned a second time, after a network failure of its first
\* request.
SeedReturnedUntilTriedWitness ==
    /\ pc = "submit"
    /\ word_to_try.origin_source = "seed"
    /\ seed_rounds = [returned |-> 2, failed |-> 1]

\* No candidate source has anything left: the corpus is used up, there is
\* no unused seed, and no provider has an untried word for a recorded guess.
NothingLeft ==
    /\ corpus \subseteq tried_words
    /\ (seed_word = "" \/ seed_word \in tried_words)
    /\ \A i \in GuessIndices :
          \A provider \in (IF language = "hebrew" THEN Providers ELSE {"wiki"}) :
             Range(ExpansionList(provider, guess_history[i].word)) \subseteq tried_words

\* C18: a round that starts with nothing left ends with get_word_to_try
\* returning None: auto_solve stops in that round, without a submission, and
\* takes no step after it.
ExhaustionStopsTheRun ==
    /\ (pc = "select" /\ NothingLeft) ~> (pc = "exhausted")
    /\ [](NothingLeft => pc # "submit")
    /\ [][pc # "exhausted"]_vars

\* The run has stopped exhausted after two recorded guesses.
ExhaustionStopsTheRunWitness ==
    /\ pc = "exhausted"
    /\ NothingLeft
    /\ seed_word = ""
    /\ Len(guess_history) >= 2

\* C19: a guess with the terminal distance is the last entry of
\* guess_history and the result of the round under way, which ends the run:
\* auto_solve returns its word, and no selector call or submission follows.
TerminalGuessEndsRun ==
    /\ [](\A i \in GuessIndices :
            guess_history[i].distance = TerminalDistance
                => /\ i = Len(guess_history)
                   /\ pc \in {"round_end", "found"}
                   /\ result = guess_history[i]
                   /\ result.word = word_to_try.word)
    /\ [](pc = "found" => /\ Len(guess_history) >= 1
                          /\ guess_history[Len(guess_history)].distance = TerminalDistance)
    /\ [][pc # "found"]_vars

\* The run has stopped on its third guess.
TerminalGuessEndsRunWitness ==
    /\ pc = "found"
    /\ Len(guess_history) = 3
    /\ result.distance = TerminalDistance

\* print_word_path(result): the words in the order their lines are printed.
\* The entry itself comes first, then the path of every recorded guess whose
\* word is its origin.
RECURSIVE print_word_path(_)
RECURSIVE PathsOfOrigin(_, _)
print_word_path(res) ==
    <<res.word>> \o (IF Len(res.origin) = 0 THEN << >> ELSE PathsOfOrigin(res.origin, 1))

\* for r in self.guess_history: if r["word"] == origin: print_word_path(r),
\* from the i-th entry on.
PathsOfOrigin(origin, i) ==
    IF i > Len(guess_history) THEN << >>
    ELSE (IF guess_history[i].word = origin THEN print_word_path(guess_history[i]) ELSE << >>)
         \o PathsOfOrigin(origin, i + 1)

\* The words of guess_history, in the order of recording.
GuessedWords == [i \in GuessIndices |-> guess_history[i].word]

\* The run so far is the scenario's: the seed is war, every request was
\* answered with a score (war 20, conflict 50, peace the terminal distance),
\* and the encyclopedia served its pages, which give [conflict] for war and
\* [peace] for conflict (the hebrew profile of the pages of this model; the
\* dictionary has nothing for either).
ScenarioRun ==
    /\ language = "hebrew"
    /\ seed_word = "war"
    /\ network_errors = 0
    /\ unknown_words = {}
    /\ tried_words = Range(GuessedWords)
    /\ pc # "aborted"
    /\ ever_empty.wiki \cap {"war", "conflict"} = {}
    /\ \A i \in GuessIndices :
          /\ guess_history[i].word = "war"
                => (guess_history[i].similarity = 20 /\ guess_history[i].distance = 0)
          /\ guess_history[i].word = "conflict"
                => (guess_history[i].similarity = 50 /\ guess_history[i].distance = 0)
          /\ guess_history[i].word = "peace" => guess_history[i].distance = TerminalDistance

\* The guesses made are war, conflict, peace, as far as the run has come, and
\* the run stops found on the third.
ScenarioGuesses ==
    /\ GuessedWords = SubSeq(<<"war", "conflict", "peace">>, 1, Len(guess_history))
    /\ pc # "exhausted"
    /\ Len(guess_history) = 3 => pc \in {"round_end", "found"}
    /\ pc = "found" => Len(guess_history) = 3

\* C20: in the scenario the guesses are war, conflict, peace, the run
\* succeeds on the third, and the path reported lists war, conflict, peace
\* in that order.
EndToEndScenario ==
    ScenarioRun
        => /\ ScenarioGuesses
           /\ pc = "found" => print_word_path(result) = <<"war", "conflict", "peace">>

(***************************************************************************)
(* The provenance walk print_word_path, statement by statement, on ledgers *)
(* built by hand: the entries are the first words of PathWords, and the    *)
(* origin of each is empty or any word of the ledger, its own and those of *)
(* later entries included.                                                 *)
(***************************************************************************)
\* The longest ledger built by hand.
MaxPathLedger == 3

\* The frames the interpreter allows before it raises RecursionError.
MaxPathDepth == 5

PathWords == <<"war", "conflict", "peace">>

PathLedgers ==
    UNION {{[i \in 1..n |->
                [word |-> PathWords[i], similarity |-> 20, distance |-> 0,
                 origin |-> origins[i],
                 origin_source |-> IF origins[i] = "" THEN "random" ELSE "wiki",
                 guess_number |-> i]] :
            origins \in [1..n -> {""} \cup {PathWords[k] : k \in 1..n}]} :
           n \in 1..MaxPathLedger}

PathInit ==
    /\ language = "english"
    /\ seed_word = ""
    /\ corpus = {"sea"}
    /\ guess_history \in PathLedgers
    /\ tried_words = {guess_history[i].word : i \in 1..Len(guess_history)}
    /\ wikipedia_cache = EmptyCache
    /\ wikipedia_exhausted = << >>
    /\ milog_cache = EmptyCache
    /\ milog_exhausted = << >>
    /\ top_words_to_find_relations = InitialSearchWidth
    /\ pc = "path"
    /\ pass = "ranked"
    /\ top_matches = << >>
    /\ rank_idx = 1
    /\ word_to_try = NoWord
    /\ result \in Range(guess_history)
    /\ sleep_time = [num |-> InitialSleepTime, den |-> 1]
    /\ sleeps = << >>
    /\ last_response = NoResponse
    /\ last_expand = NoCall
    /\ consulted = {}
    /\ ever_empty = NoHistory
    /\ cleared = NoHistory
    /\ window = [wiki |-> EmptyCache, milog |-> EmptyCache]
    /\ network_errors = 0
    /\ unknown_words = {}
    /\ seed_rounds = [returned |-> 0, failed |-> 0]
    /\ path_stack = << >>
    /\ path_printed = << >>

\* The call print_word_path(res) made with the frames stack under it, up to
\* the first iteration of its loop: the entry is displayed, and the call
\* returns at once when the origin is empty.  A call one frame too deep
\* raises RecursionError, which nothing catches.
PathEnter(res, stack) ==
    IF Len(stack) >= MaxPathDepth
    THEN /\ pc' = "path_overflow"
         /\ path_stack' = stack
         /\ path_printed' = path_printed
    ELSE /\ path_printed' = Append(path_printed, res.word)
         /\ path_stack' = IF Len(res.origin) = 0 THEN stack
                          ELSE Append(stack, [result |-> res, at |-> 1])
         /\ pc' = IF Len(res.origin) = 0 /\ stack = << >> THEN "path_done" ELSE pc

PathFrame == UNCHANGED <<config, ledger, wiki_state, milog_state, top_words_to_find_relations,
                         pass, top_matches, rank_idx, word_to_try, submit_state,
                         expand_history, consulted, run_history>>

\* auto_solve's call print_word_path(result).
PathCall ==
    /\ pc = "path"
    /\ path_stack = << >>
    /\ path_printed = << >>
    /\ PathEnter(result, << >>)
    /\ PathFrame

\* One iteration of the loop over guess_history in the innermost frame: an
\* entry whose word is the frame's origin is walked in a new frame.
PathLoop ==
    /\ pc = "path"
    /\ path_stack # << >>
    /\ LET top == path_stack[Len(path_stack)]
           advanced == [path_stack EXCEPT ![Len(path_stack)].at = top.at + 1]
       IN  /\ top.at <= Len(guess_history)
           /\ IF guess_history[top.at].word = top.result.origin
              THEN PathEnter(guess_history[top.at], advanced)
              ELSE /\ path_stack' = advanced
                   /\ UNCHANGED <<pc, path_printed>>
    /\ PathFrame

\* The loop of the innermost frame is over: the call returns.
PathReturn ==
    /\ pc = "path"
    /\ path_stack # << >>
    /\ path_stack[Len(path_stack)].at > Len(guess_history)
    /\ path_stack' = SubSeq(path_stack, 1, Len(path_stack) - 1)
    /\ pc' = IF Len(path_stack) = 1 THEN "path_done" ELSE pc
    /\ UNCHANGED path_printed
    /\ PathFrame

PathNext ==
    \/ PathCall
    \/ PathLoop
    \/ PathReturn

SpecPath == PathInit /\ [][PathNext]_vars

\* The entries reached from those of the set S by following origins once
\* at least and k times at most.
RECURSIVE OriginsOf(_, _)
OriginsOf(S, k) ==
    IF k = 0 THEN {}
    ELSE LET next == {j \in GuessIndices :
                         \E i \in S : guess_history[i].origin = guess_history[j].word}
         IN  next \cup OriginsOf(next, k - 1)

\* The ledgers in which following the origins from some entry comes back
\* to that entry.
OriginCycle ==
    \E i \in GuessIndices : i \in OriginsOf({i}, Len(guess_history))

\* C21: on a ledger whose origins form a cycle, print_word_path terminates
\* and displays no recorded guess more than once.
PathWalkVisitsOnce ==
    OriginCycle => (pc # "path_overflow" /\ IsDistinct(path_printed))

\* C22: in either language a successful response is accepted whether it
\* carries the score as a single object or wrapped in a one-element
\* sequence: the call returns, and the guess it records has the similarity
\* and the distance of the response whatever the shape.
BothShapesAccepted ==
    (pc \in {"round_end", "aborted"} /\ last_response.kind = "ok") =>
        /\ pc = "round_end"
        /\ guess_history # << >>
        /\ result = guess_history[Len(guess_history)]
        /\ result.word = word_to_try.word
        /\ result.similarity = last_response.similarity
        /\ result.distance = last_response.distance

\* C23: in every reachable state the origin of each recorded guess is empty
\* (tags seed and random) or the word of a guess recorded strictly earlier,
\* with a smaller guess_number (tags wiki and milog); so no origin chain
\* comes back to an entry.
OriginRecordedEarlier ==
    /\ \A i \in GuessIndices :
          LET g == guess_history[i]
          IN  \/ g.origin = "" /\ g.origin_source \in {"seed", "random"}
              \/ /\ g.origin_source \in {"wiki", "milog"}
                 /\ \E j \in 1..(i - 1) :
                       /\ guess_history[j].word = g.origin
                       /\ guess_history[j].guess_number < g.guess_number
    /\ ~OriginCycle

\* A chain of three recorded guesses: the third expands the second, the
\* second expands the first, and the first has no origin.
OriginRecordedEarlierWitness ==
    /\ Len(guess_history) >= 3
    /\ guess_history[3].origin = guess_history[2].word
    /\ guess_history[2].origin = guess_history[1].word
    /\ guess_history[1].origin = ""
    /\ guess_history[3].origin_source \in {"wiki", "milog"}

\* C24: no step removes a word from tried_words, a cache flush included,
\* and every word the selector returns, on whichever branch, is absent from
\* tried_words when it is returned and until its request is answered; so a
\* submit_guess call of the run loop never takes the early "already tried"
\* return, which is the one way a call ends without a response.
TriedGatesSelection ==
    /\ [](pc = "submit" => word_to_try.word \notin tried_words)
    /\ [][tried_words \subseteq tried_words']_vars
    /\ [][(pc = "submit" /\ pc' # "submit") => last_response' \in Responses]_vars

\* The selector returned a word of a cached list of which another word is
\* already tried.
TriedGatesSelectionWitness ==
    /\ pc = "submit"
    /\ word_to_try.origin_source = "wiki"
    /\ word_to_try.origin \in DOMAIN wikipedia_cache
    /\ \E w \in Range(wikipedia_cache[word_to_try.origin]) : w \in tried_words
    /\ word_to_try.word \notin tried_words

\* C25: in every reachable state every recorded word is in tried_words,
\* the guess_number values are strictly increasing along guess_history and
\* none exceeds the size of tried_words; a recorded guess is numbered with
\* the size of tried_words at the moment it is recorded.
LedgerNumberedByTried ==
    /\ [](\A i \in GuessIndices :
            /\ guess_history[i].word \in tried_words
            /\ guess_history[i].guess_number <= Cardinality(tried_words)
            /\ \A j \in GuessIndices :
                  i < j => guess_history[i].guess_number < guess_history[j].guess_number)
    /\ [][guess_history' # guess_history =>
            /\ Len(guess_history') = Len(guess_history) + 1
            /\ guess_history'[Len(guess_history')].guess_number = Cardinality(tried_words')]_vars

\* Two recorded guesses with a tried word that was not recorded between
\* them, and another after them.
LedgerNumberedByTriedWitness ==
    /\ Len(guess_history) >= 2
    /\ guess_history[2].guess_number > guess_history[1].guess_number + 1
    /\ guess_history[Len(guess_history)].guess_number < Cardinality(tried_words)

\* The step that ends a submit_guess call whose last request got an answer
\* that is not a 429.
AnsweredRound ==
    /\ pc = "submit"
    /\ pc' # "submit"
    /\ last_response' \in Responses
    /\ last_response'.kind \notin {"rate_limit", "network"}

\* C26: every round in which the oracle gives an answer other than a 429
\* makes tried_words larger by exactly one word; and, the universe of words
\* being finite and the oracle not answering 429 or failing in the network
\* forever, the run loop eventually stops, by a terminal score or by
\* exhaustion.
RunStopsByScoreOrExhaustion ==
    /\ [][AnsweredRound => Cardinality(tried_words') = Cardinality(tried_words) + 1]_vars
    /\ <>(pc \in {"found", "exhausted"})

====
